---- MODULE Spec2Model ----
(***************************************************************************)
(* Evaluation of astro.config.mjs: the module imports three bindings,      *)
(* evaluates the object literal handed to defineConfig property by         *)
(* property (JavaScript evaluates the properties of an object literal and  *)
(* the elements of an array literal in source order), calls starlight with *)
(* the theme options, and binds the result as the default export.          *)
(*                                                                         *)
(* The file holds two declarations of the configuration (lines 1-58 and    *)
(* lines 60-108).  Which of the two a load of the module yields is a       *)
(* nondeterministic choice, decl.                                          *)
(*                                                                         *)
(* Strings that a claim looks into are sequences: a URL or a path is a     *)
(* sequence of characters, a slug or a directory a sequence of path        *)
(* segments.  Labels and identifiers are atomic strings.                   *)
(***************************************************************************)
EXTENDS Integers, Sequences, FiniteSets, TLC

VARIABLES pc, decl, env, argc, imports, config, options, exports

vars == <<pc, decl, env, argc, imports, config, options, exports>>

(***************************************************************************)
(* Bounds of the process the module is loaded in: the environment          *)
(* variables that may be set, and the number of command line arguments.    *)
(***************************************************************************)
MaxEnv == 2

MaxArgc == 2

(***************************************************************************)
(* The literals of the source.                                             *)
(***************************************************************************)
Declarations == {1, 2}

ImportedBindings == {"defineConfig", "starlight", "rehypeMermaid"}

Site ==
  <<"h","t","t","p","s",":","/","/","j","-","o","c","h","m","a","n","n",
    ".","g","i","t","h","u","b",".","i","o">>

BaseRelative == <<"a","s","t","r","o">>

Base == <<"/","a","s","t","r","o">>

SyntaxHighlight == [type |-> "shiki", excludeLangs |-> <<"mermaid">>]

MermaidOptionsLightTheme ==
  [mermaidConfig |-> [theme |-> "light"], dark |-> FALSE]

MermaidOptions == [mermaidConfig |-> [theme |-> "default"], dark |-> FALSE]

RehypePlugins == << <<"rehypeMermaid", MermaidOptions>> >>

Title == "DevBook"

GithubHrefNoScheme ==
  <<"g","i","t","h","u","b",".","c","o","m","/","j","-","o","c","h","m","a",
    "n","n">>

GithubHref ==
  <<"h","t","t","p","s",":","/","/","g","i","t","h","u","b",".","c","o","m",
    "/","j","-","o","c","h","m","a","n","n">>

Social == << [icon |-> "github", label |-> "GitHub", href |-> GithubHref] >>

QuickReferenceEntryOpen ==
  [label |-> "Quick Reference",
   autogenerate |-> [directory |-> <<"quick_reference">>],
   collapsed |-> FALSE]

QuickReferenceEntry ==
  [label |-> "Quick Reference",
   autogenerate |-> [directory |-> <<"quick_reference">>],
   collapsed |-> TRUE]

DesignPatternsItemsRepeated ==
  << [label |-> "Creational", slug |-> <<"design_patterns", "creational">>],
     [label |-> "Structural", slug |-> <<"design_patterns", "structural">>],
     [label |-> "Behavioral", slug |-> <<"design_patterns", "structural">>] >>

DesignPatternsItems ==
  << [label |-> "Creational", slug |-> <<"design_patterns", "creational">>],
     [label |-> "Structural", slug |-> <<"design_patterns", "structural">>],
     [label |-> "Behavioral", slug |-> <<"design_patterns", "behavioral">>] >>

DesignPatternsEntry ==
  [label |-> "Design Patterns",
   link |-> <<"design_patterns">>,
   collapsed |-> TRUE,
   items |-> DesignPatternsItems]

ExternalResourcesEntryDesignPatterns ==
  [label |-> "External Resources",
   autogenerate |-> [directory |-> <<"design_patterns">>],
   collapsed |-> TRUE]

ExternalResourcesEntry ==
  [label |-> "External Resources",
   autogenerate |-> [directory |-> <<"external">>],
   collapsed |-> TRUE]

DesignPatternsAutoEntry ==
  [label |-> "Design Patterns",
   autogenerate |-> [directory |-> <<"design_patterns">>],
   collapsed |-> TRUE]

Sidebar(d) ==
  IF d = 1
    THEN <<QuickReferenceEntry, DesignPatternsEntry, ExternalResourcesEntry>>
    ELSE <<DesignPatternsAutoEntry>>

(***************************************************************************)
(* The literals of the second declaration (lines 65-92), other than its    *)
(* sidebar.                                                                *)
(***************************************************************************)
SecondSite ==
  <<"h","t","t","p","s",":","/","/","j","-","o","c","h","m","a","n","n",
    ".","g","i","t","h","u","b",".","i","o">>

SecondBaseDocs == <<"/","d","o","c","s">>

SecondBase == <<"/","a","s","t","r","o">>

SecondSyntaxHighlight == [type |-> "shiki", excludeLangs |-> <<"mermaid">>]

SecondMermaidOptions ==
  [mermaidConfig |-> [theme |-> "default"], dark |-> FALSE]

SecondRehypePlugins == << <<"rehypeMermaid", SecondMermaidOptions>> >>

SecondTitle == "DevBook"

SecondGithubHref ==
  <<"h","t","t","p","s",":","/","/","g","i","t","h","u","b",".","c","o","m",
    "/","j","-","o","c","h","m","a","n","n">>

SecondSocial ==
  << [icon |-> "github", label |-> "GitHub", href |-> SecondGithubHref] >>

(***************************************************************************)
(* What declaration d writes for each key.                                 *)
(***************************************************************************)
SiteOf(d) == IF d = 1 THEN Site ELSE SecondSite

BaseOf(d) == IF d = 1 THEN Base ELSE SecondBase

MarkdownOf(d) ==
  IF d = 1
    THEN [syntaxHighlight |-> SyntaxHighlight,
          rehypePlugins |-> RehypePlugins]
    ELSE [syntaxHighlight |-> SecondSyntaxHighlight,
          rehypePlugins |-> SecondRehypePlugins]

TitleOf(d) == IF d = 1 THEN Title ELSE SecondTitle

SocialOf(d) == IF d = 1 THEN Social ELSE SecondSocial

(***************************************************************************)
(* The statements of the file, both declarations together: the import      *)
(* declarations in source order, and the export default statements.        *)
(***************************************************************************)
ImportDeclarations ==
  <<"defineConfig", "starlight", "rehypeMermaid",
    "defineConfig", "starlight", "rehypeMermaid">>

ExportDefaultDeclarations == <<1, 2>>

(***************************************************************************)
(* An object under construction: no property set yet.                      *)
(***************************************************************************)
EmptyObject == [k \in {} |-> TRUE]

(***************************************************************************)
(* The process starts with the module not yet evaluated.  The environment  *)
(* and the command line are whatever the caller of the build set.          *)
(***************************************************************************)
Init ==
  /\ pc = "import"
  /\ decl \in Declarations
  /\ env \in SUBSET (1..MaxEnv)
  /\ argc \in 0..MaxArgc
  /\ imports = {}
  /\ config = EmptyObject
  /\ options = EmptyObject
  /\ exports = <<>>

Import ==
  /\ pc = "import"
  /\ imports' = ImportedBindings
  /\ pc' = "site"
  /\ UNCHANGED <<decl, env, argc, config, options, exports>>

SetSite ==
  /\ pc = "site"
  /\ config' = config @@ ("site" :> SiteOf(decl))
  /\ pc' = "base"
  /\ UNCHANGED <<decl, env, argc, imports, options, exports>>

SetBase ==
  /\ pc = "base"
  /\ config' = config @@ ("base" :> BaseOf(decl))
  /\ pc' = "markdown"
  /\ UNCHANGED <<decl, env, argc, imports, options, exports>>

SetMarkdown ==
  /\ pc = "markdown"
  /\ "rehypeMermaid" \in imports
  /\ config' = config @@
       ("markdown" :> MarkdownOf(decl))
  /\ pc' = "title"
  /\ UNCHANGED <<decl, env, argc, imports, options, exports>>

SetTitle ==
  /\ pc = "title"
  /\ options' = options @@ ("title" :> TitleOf(decl))
  /\ pc' = "social"
  /\ UNCHANGED <<decl, env, argc, imports, config, exports>>

SetSocial ==
  /\ pc = "social"
  /\ options' = options @@ ("social" :> SocialOf(decl)) @@ ("sidebar" :> <<>>)
  /\ pc' = "sidebar"
  /\ UNCHANGED <<decl, env, argc, imports, config, exports>>

PushSidebarEntry ==
  /\ pc = "sidebar"
  /\ Len(options.sidebar) < Len(Sidebar(decl))
  /\ options' = [options EXCEPT !.sidebar =
       Append(@, Sidebar(decl)[Len(@) + 1])]
  /\ UNCHANGED <<pc, decl, env, argc, imports, config, exports>>

CallStarlight ==
  /\ pc = "sidebar"
  /\ Len(options.sidebar) = Len(Sidebar(decl))
  /\ "starlight" \in imports
  /\ config' = config @@
       ("integrations" :> << [name |-> "starlight", options |-> options] >>)
  /\ pc' = "defineConfig"
  /\ UNCHANGED <<decl, env, argc, imports, options, exports>>

ExportDefault ==
  /\ pc = "defineConfig"
  /\ "defineConfig" \in imports
  /\ exports' = Append(exports, config)
  /\ pc' = "exported"
  /\ UNCHANGED <<decl, env, argc, imports, config, options>>

Next ==
  \/ Import
  \/ SetSite
  \/ SetBase
  \/ SetMarkdown
  \/ SetTitle
  \/ SetSocial
  \/ PushSidebarEntry
  \/ CallStarlight
  \/ ExportDefault

Spec == Init /\ [][Next]_vars

(***************************************************************************)
(* Vocabulary of the properties.                                           *)
(***************************************************************************)
Letters ==
  {"a","b","c","d","e","f","g","h","i","j","k","l","m",
   "n","o","p","q","r","s","t","u","v","w","x","y","z"}

Digits == {"0","1","2","3","4","5","6","7","8","9"}

HostChars == Letters \cup Digits \cup {"-", "."}

Has(obj, key) == key \in DOMAIN obj

\* The entries of a sidebar at every level of nesting.
RECURSIVE EntriesOf(_)
EntriesOf(seq) ==
  UNION { {seq[i]} \cup (IF Has(seq[i], "items")
                           THEN EntriesOf(seq[i].items)
                           ELSE {})
          : i \in 1..Len(seq) }

IsLinkShape(e) ==
  /\ Has(e, "label")
  /\ Has(e, "slug") \/ Has(e, "link")
  /\ ~Has(e, "items")
  /\ ~Has(e, "autogenerate")

IsGroupShape(e) ==
  /\ Has(e, "label")
  /\ Has(e, "items")
  /\ ~Has(e, "slug")
  /\ ~Has(e, "link")
  /\ ~Has(e, "autogenerate")

IsAutogenerateShape(e) ==
  /\ Has(e, "label")
  /\ Has(e, "autogenerate")
  /\ Has(e.autogenerate, "directory")
  /\ ~Has(e, "items")
  /\ ~Has(e, "slug")
  /\ ~Has(e, "link")

\* A path: begins with "/".
IsPath(s) == Len(s) >= 1 /\ s[1] = "/"

\* An absolute URL: a scheme of letters, "://", and a host that is not empty.
IsAbsoluteURL(s) ==
  \E i \in 2..Len(s) :
    /\ \A k \in 1..(i - 1) : s[k] \in Letters
    /\ i + 2 <= Len(s)
    /\ s[i] = ":" /\ s[i + 1] = "/" /\ s[i + 2] = "/"
    /\ \E j \in (i + 3)..Len(s) :
         /\ \A k \in (i + 3)..j : s[k] \in HostChars
         /\ j = Len(s) \/ s[j + 1] = "/"

RequiredKeys == {"site", "base", "markdown", "integrations"}

MermaidThemes == {"default", "base", "dark", "forest", "neutral", "null"}

(***************************************************************************)
(* C4: every sidebar entry, top-level or nested, has exactly one of the    *)
(* three shapes: a link (label with slug or link, no children), a group    *)
(* (label with items), or an autogeneration directive (label with          *)
(* autogenerate.directory); none combines the fields of two shapes.        *)
(* The first declaration's 'Design Patterns' entry carries both link and   *)
(* items, so this fails once that entry is in the sidebar.                 *)
(***************************************************************************)
SidebarEntryShape ==
  Has(options, "sidebar") =>
    \A e \in EntriesOf(options.sidebar) :
      IsLinkShape(e) \/ IsGroupShape(e) \/ IsAutogenerateShape(e)

(***************************************************************************)
(* C5: every exported configuration has the keys the generator reads       *)
(* (site, base, markdown, integrations, and the theme's title), its base   *)
(* is a path that begins with "/", and its site is an absolute URL with a  *)
(* scheme and a host.                                                      *)
(***************************************************************************)
SchemaValid ==
  \A n \in 1..Len(exports) :
    /\ RequiredKeys \subseteq DOMAIN exports[n]
    /\ \A i \in 1..Len(exports[n].integrations) :
         Has(exports[n].integrations[i].options, "title")
    /\ IsPath(exports[n].base)
    /\ IsAbsoluteURL(exports[n].site)

SchemaValidWitness ==
  /\ pc = "exported"
  /\ Len(exports) = 1
  /\ exports[1].base = <<"/","a","s","t","r","o">>
  /\ Len(exports[1].site) = 27

(***************************************************************************)
(* C6: whenever the markdown settings hold the diagram plugin, the options *)
(* paired with it carry a theme of the plugin's enumeration and a boolean  *)
(* dark flag.                                                              *)
(***************************************************************************)
DiagramPluginOptions ==
  Has(config, "markdown") =>
    \A i \in 1..Len(config.markdown.rehypePlugins) :
      LET plugin == config.markdown.rehypePlugins[i][1]
          opts == config.markdown.rehypePlugins[i][2]
      IN plugin = "rehypeMermaid" =>
           /\ opts.mermaidConfig.theme \in MermaidThemes
           /\ opts.dark \in BOOLEAN

DiagramPluginOptionsWitness ==
  /\ Has(config, "markdown")
  /\ Len(config.markdown.rehypePlugins) = 1
  /\ config.markdown.rehypePlugins[1][1] = "rehypeMermaid"
  /\ config.markdown.rehypePlugins[1][2].mermaidConfig.theme = "default"
  /\ config.markdown.rehypePlugins[1][2].dark = FALSE

(***************************************************************************)
(* Further vocabulary.                                                     *)
(***************************************************************************)
\* Sequence p is a prefix of sequence q.
IsPrefix(p, q) == Len(p) <= Len(q) /\ SubSeq(q, 1, Len(p)) = p

\* The positions of a sidebar's entries at every level: <<i>> is top-level
\* entry i, <<i, j>> is child j of top-level entry i.
Positions(seq) ==
  { <<i>> : i \in 1..Len(seq) } \cup
  UNION { IF Has(seq[i], "items")
            THEN { <<i, j>> : j \in 1..Len(seq[i].items) }
            ELSE {}
          : i \in 1..Len(seq) }

EntryAt(seq, pos) ==
  IF Len(pos) = 1 THEN seq[pos[1]] ELSE seq[pos[1]].items[pos[2]]

\* The pages an entry lists by hand: its slug and its link.
HandListed(e) ==
  (IF Has(e, "slug") THEN {e.slug} ELSE {}) \cup
  (IF Has(e, "link") THEN {e.link} ELSE {})

\* The keys of a configuration other than the sidebar.
NonSidebar(c) ==
  [site |-> c.site,
   base |-> c.base,
   markdown |-> c.markdown,
   title |-> c.integrations[1].options.title,
   social |-> c.integrations[1].options.social]

NonSidebarOf(d) ==
  [site |-> SiteOf(d),
   base |-> BaseOf(d),
   markdown |-> MarkdownOf(d),
   title |-> TitleOf(d),
   social |-> SocialOf(d)]

(***************************************************************************)
(* C11: the title given to the theme is the non-empty string 'DevBook',    *)
(* and every entry of social has an icon, a label and an href, the href    *)
(* being an absolute URL.                                                  *)
(***************************************************************************)
ThemeSettingsShape ==
  /\ Has(options, "title") =>
       options.title = "DevBook" /\ options.title # ""
  /\ Has(options, "social") =>
       \A i \in 1..Len(options.social) :
         /\ {"icon", "label", "href"} \subseteq DOMAIN options.social[i]
         /\ IsAbsoluteURL(options.social[i].href)

ThemeSettingsShapeWitness ==
  /\ Has(options, "title")
  /\ Has(options, "social")
  /\ Len(options.social) = 1
  /\ options.social[1].icon = "github"
  /\ decl = 1

(***************************************************************************)
(* C13: a load of the module yields one unambiguous configuration: the     *)
(* file has exactly one export default statement, imports each binding     *)
(* exactly once, and the exported configuration is the one that every      *)
(* declaration of the file declares.  The file has two export default      *)
(* statements with different sidebars and imports each binding twice.      *)
(***************************************************************************)
SingleConfiguration ==
  pc = "exported" =>
    /\ Len(ExportDefaultDeclarations) = 1
    /\ \A b \in imports :
         Cardinality({ i \in DOMAIN ImportDeclarations :
                         ImportDeclarations[i] = b }) = 1
    /\ \A d \in Declarations :
         exports[1].integrations[1].options.sidebar = Sidebar(d)

(***************************************************************************)
(* C14: the configuration a declaration exports equals, on every key       *)
(* other than the sidebar, what the other declaration writes: site, base,  *)
(* markdown (highlighting and plugins with options), title and social.     *)
(***************************************************************************)
DeclarationsAgree ==
  pc = "exported" =>
    \A d \in Declarations : NonSidebar(exports[1]) = NonSidebarOf(d)

DeclarationsAgreeWitness ==
  /\ pc = "exported"
  /\ decl = 1
  /\ Len(exports) = 1
  /\ NonSidebar(exports[1]) = NonSidebarOf(2)
  /\ exports[1].integrations[1].options.sidebar # Sidebar(2)

(***************************************************************************)
(* C15: within the sidebar of one configuration, no directory is named by  *)
(* two autogenerate directives, no slug or link is listed by two entries,  *)
(* and no hand-listed slug or link lies under a directory that an entry    *)
(* autogenerates.                                                          *)
(***************************************************************************)
NoPageListedTwice ==
  Has(options, "sidebar") =>
    LET sb == options.sidebar
        P == Positions(sb)
    IN \A p \in P : \A q \in P :
         LET a == EntryAt(sb, p)
             b == EntryAt(sb, q)
         IN /\ (p # q /\ Has(a, "autogenerate") /\ Has(b, "autogenerate"))
                 => a.autogenerate.directory # b.autogenerate.directory
            /\ p # q => HandListed(a) \cap HandListed(b) = {}
            /\ Has(b, "autogenerate") =>
                 \A s \in HandListed(a) :
                   ~IsPrefix(b.autogenerate.directory, s)

NoPageListedTwiceWitness ==
  /\ decl = 1
  /\ Has(options, "sidebar")
  /\ Len(options.sidebar) = 3
  /\ Cardinality(Positions(options.sidebar)) = 6
  /\ Has(options.sidebar[3], "autogenerate")

(***************************************************************************)
(* C16: the collapsed flag is only on entries that have children (items    *)
(* or an autogenerate directive), never on a leaf link, and every          *)
(* top-level entry sets it to true.                                        *)
(***************************************************************************)
CollapsedPlacement ==
  Has(options, "sidebar") =>
    /\ \A e \in EntriesOf(options.sidebar) :
         Has(e, "collapsed") => Has(e, "items") \/ Has(e, "autogenerate")
    /\ \A i \in 1..Len(options.sidebar) :
         /\ Has(options.sidebar[i], "collapsed")
         /\ options.sidebar[i].collapsed = TRUE

CollapsedPlacementWitness ==
  /\ pc = "exported"
  /\ decl = 1
  /\ Len(options.sidebar) = 3
  /\ \E e \in EntriesOf(options.sidebar) : ~Has(e, "collapsed")

(***************************************************************************)
(* C17: in the explicit 'Design Patterns' group the link is                *)
(* 'design_patterns', every child slug is that link followed by exactly    *)
(* one more segment, and the children's labels and slugs are pairwise      *)
(* distinct.                                                               *)
(***************************************************************************)
GroupContainment ==
  Has(options, "sidebar") =>
    \A i \in 1..Len(options.sidebar) :
      LET e == options.sidebar[i]
      IN (e.label = "Design Patterns" /\ Has(e, "items")) =>
           /\ Has(e, "link")
           /\ e.link = <<"design_patterns">>
           /\ \A j \in 1..Len(e.items) :
                /\ Len(e.items[j].slug) = Len(e.link) + 1
                /\ IsPrefix(e.link, e.items[j].slug)
           /\ \A j \in 1..Len(e.items) : \A k \in 1..Len(e.items) :
                j # k => /\ e.items[j].label # e.items[k].label
                         /\ e.items[j].slug # e.items[k].slug

GroupContainmentWitness ==
  /\ decl = 1
  /\ Has(options, "sidebar")
  /\ Len(options.sidebar) >= 2
  /\ Has(options.sidebar[2], "items")
  /\ Len(options.sidebar[2].items) = 3

====
